---- MODULE Spec2Model ----
(***************************************************************************)
(* Model of the form-population pipeline (src/form_populator.py) and of   *)
(* the document extractor (src/main.py).                                   *)
(*                                                                         *)
(* Text values are sequences of one-character strings, so that Python's    *)
(* substring test, str.lower and str.split are computed, not assumed.      *)
(* The form markup is a sequence of tokens (tag opener, attribute, tag     *)
(* closer); a Python substring test for  id="x"  or  <select id="x"  is a  *)
(* test for a contiguous run of tokens.                                    *)
(***************************************************************************)
EXTENDS Integers, Sequences, FiniteSets, TLC

(***************************************************************************)
(* Bounds of the model.                                                    *)
(***************************************************************************)
MaxNonNull == 2      \* non-null fields of an input record
MaxTail == 2         \* free elements at the end of a model response array
MaxCmds == 3         \* length of an operation list handed to the executor alone
MaxFaults == 1       \* page calls that fail although the element is fit
MaxPolls == 2        \* status re-fetches of one uploaded document
MaxDateLen == 5      \* characters of an enumerated date value

(***************************************************************************)
(* Text.                                                                   *)
(***************************************************************************)
None == <<"<None>">>                 \* Python None (JSON null, absent field)
EmptyStr == <<>>                     \* ""

\* A JSON number where text is expected (the number 7)
JsonNumber == <<"<number>">>

\* isinstance(v, str)
IsText(v) == v \notin {None, JsonNumber}

\* str(v)
Str(v) ==
    IF v = JsonNumber THEN <<"7">>
    ELSE IF v = None THEN <<"N", "o", "n", "e">>
    ELSE v

\* Python:  needle in hay  (contiguous run; the empty needle is in everything)
Contains(hay, needle) ==
    \E i \in 0..(Len(hay) - Len(needle)) :
        \A j \in 1..Len(needle) : hay[i + j] = needle[j]

UpperToLower ==
    [A |-> "a", B |-> "b", C |-> "c", D |-> "d", E |-> "e", F |-> "f",
     G |-> "g", H |-> "h", I |-> "i", J |-> "j", K |-> "k", L |-> "l",
     M |-> "m", N |-> "n", O |-> "o", P |-> "p", Q |-> "q", R |-> "r",
     S |-> "s", T |-> "t", U |-> "u", V |-> "v", W |-> "w", X |-> "x",
     Y |-> "y", Z |-> "z"]

\* Python:  str(value).lower()
Lower(s) ==
    [i \in 1..Len(s) |-> IF s[i] \in DOMAIN UpperToLower THEN UpperToLower[s[i]] ELSE s[i]]

Str_not == <<"n", "o", "t">>
Str_am == <<"a", "m">>
Str_attorney == <<"a", "t", "t", "o", "r", "n", "e", "y">>

(***************************************************************************)
(* The record schema, in declaration order (the order of model_dump()).    *)
(***************************************************************************)
AllFields ==
    << "attorney_online_account", "attorney_family_name", "attorney_given_name",
       "attorney_middle_name", "attorney_street_number", "attorney_apt_ste_flr",
       "attorney_city", "attorney_state", "attorney_zip_code", "attorney_country",
       "attorney_daytime_phone", "attorney_mobile_phone", "attorney_email",
       "attorney_fax_number",
       "attorney_licensing_authority", "attorney_bar_number",
       "attorney_subject_to_restrictions", "attorney_law_firm",
       "attorney_recognized_org", "attorney_accreditation_date",
       "beneficiary_last_name", "beneficiary_first_name", "beneficiary_middle_name",
       "passport_number", "passport_country_of_issue", "passport_nationality",
       "beneficiary_date_of_birth", "beneficiary_place_of_birth", "beneficiary_sex",
       "passport_date_of_issue", "passport_date_of_expiration",
       "client_family_name", "client_given_name", "client_middle_name",
       "client_daytime_phone", "client_mobile_phone", "client_email",
       "client_street_number", "client_apt_ste_flr", "client_city", "client_state",
       "client_zip_code", "client_country", "client_uscis_account",
       "client_alien_number" >>

FieldNames == {AllFields[i] : i \in 1..Len(AllFields)}

\* The fields k with  k.startswith('attorney_')  : the first twenty of the schema.
AttorneyFields == {AllFields[i] : i \in 1..20}

\* FormA28Data(): every field absent
EmptyRecord == [f \in FieldNames |-> None]

\* data_dict = {k: v for k, v in data.model_dump().items() if v is not None}
NonNull(data) == {f \in FieldNames : data[f] # None}

(***************************************************************************)
(* Markup.                                                                 *)
(***************************************************************************)
TagOpen(tag) == <<"<", tag, "">>
IdAttr(q, id) == <<"id", q, id>>
TypeAttr(q, type) == <<"type", q, type>>
TagClose == <<">", "", "">>

\* One element as it is written in the markup; q is the quote character used
\* ("dq" for ", "sq" for ').  A select element carries no type attribute.
RenderElement(e) ==
    IF e.tag = "select"
    THEN << TagOpen("select"), IdAttr(e.q, e.id), TagClose >>
    ELSE << TagOpen(e.tag), IdAttr(e.q, e.id), TypeAttr(e.q, e.type), TagClose >>

\* f'id="{id_pattern}"' in form_html or f"id='{id_pattern}'" in form_html
HasId(html, id) ==
    \/ Contains(html, << IdAttr("dq", id) >>)
    \/ Contains(html, << IdAttr("sq", id) >>)

\* f'<select id="{id_pattern}"' in form_html or f"<select id='{id_pattern}'" in form_html
HasSelectId(html, id) ==
    \/ Contains(html, << TagOpen("select"), IdAttr("dq", id) >>)
    \/ Contains(html, << TagOpen("select"), IdAttr("sq", id) >>)

\* 'type="date"' in form_html   (double quotes only)
HasTypeCue(html, type) == Contains(html, << TypeAttr("dq", type) >>)

(***************************************************************************)
(* Operations (commands).  A command is a dict; get() of a missing key is  *)
(* None.  An element of a model response that is no dict has kind "other". *)
(***************************************************************************)
InputSel(id) == <<"input", "id", id>>      \* f"input[id='{id_pattern}']"
SelectSel(id) == <<"select", "id", id>>    \* f"select[id='{id_pattern}']"

Cmd(action, selector, value) ==
    [kind |-> "dict", action |-> action, selector |-> selector, value |-> value]

NotADict == [kind |-> "other", action |-> "", selector |-> None, value |-> None]

EligibleSel == InputSel("attorney-eligible")

(***************************************************************************)
(* FormPopulator._generate_deterministic_commands                          *)
(***************************************************************************)
field_mappings ==
    [ attorney_family_name |-> <<"family-name", "last-name", "surname">>,
      attorney_given_name |-> <<"given-name", "first-name", "firstname">>,
      attorney_middle_name |-> <<"middle-name", "middlename">>,
      attorney_street_number |-> <<"street-number", "street", "address">>,
      attorney_city |-> <<"city", "town">>,
      attorney_state |-> <<"state", "province">>,
      attorney_zip_code |-> <<"zip", "postal-code", "zipcode">>,
      attorney_country |-> <<"country">>,
      attorney_daytime_phone |-> <<"daytime-phone", "phone", "telephone">>,
      attorney_mobile_phone |-> <<"mobile-phone", "mobile", "cell">>,
      attorney_email |-> <<"email", "e-mail">>,
      attorney_licensing_authority |-> <<"licensing-authority", "bar-authority">>,
      attorney_bar_number |-> <<"bar-number", "bar-id">>,
      attorney_law_firm |-> <<"law-firm", "firm", "organization">>,
      attorney_subject_to_restrictions |-> <<"not-subject", "am-subject">>,
      beneficiary_last_name |-> <<"passport-surname", "last-name">>,
      beneficiary_first_name |-> <<"passport-given-names", "first-name">>,
      passport_number |-> <<"passport-number", "passport-no">>,
      passport_country_of_issue |-> <<"passport-country", "country-of-issue">>,
      passport_nationality |-> <<"passport-nationality", "nationality">>,
      beneficiary_date_of_birth |-> <<"passport-dob", "date-of-birth", "dob">>,
      beneficiary_place_of_birth |-> <<"passport-pob", "place-of-birth", "birthplace">>,
      beneficiary_sex |-> <<"passport-sex", "sex", "gender">>,
      passport_date_of_issue |-> <<"passport-issue-date", "date-of-issue">>,
      passport_date_of_expiration |-> <<"passport-expiry-date", "date-of-expiration">> ]

\* The action and selector chosen for an id found in the markup.
ClassifyElement(html, id_pattern, value) ==
    IF HasSelectId(html, id_pattern)
    THEN Cmd("select", SelectSel(id_pattern), value)
    ELSE IF HasTypeCue(html, "date") /\ HasId(html, id_pattern)
    THEN Cmd("date", InputSel(id_pattern), value)
    ELSE IF HasTypeCue(html, "checkbox") /\ HasId(html, id_pattern)
    THEN Cmd("check", InputSel(id_pattern), value)
    ELSE Cmd("fill", InputSel(id_pattern), value)

\* One pass of the inner loop for attorney_subject_to_restrictions: the command
\* appended for this pattern, or <<>> when the loop continues.
RestrictionBranchCaseSensitive(id_pattern, value) ==
    IF Contains(value, Str_not) /\ id_pattern = "not-subject"
    THEN << Cmd("check", InputSel(id_pattern), value) >>
    ELSE IF /\ Contains(value, Str_am)
            /\ ~Contains(value, Str_not)
            /\ id_pattern = "am-subject"
    THEN << Cmd("check", InputSel(id_pattern), value) >>
    ELSE <<>>

RestrictionBranch(id_pattern, value) ==
    IF Contains(Lower(value), Str_not) /\ id_pattern = "not-subject"
    THEN << Cmd("check", InputSel(id_pattern), value) >>
    ELSE IF /\ Contains(Lower(value), Str_am)
            /\ ~Contains(Lower(value), Str_not)
            /\ id_pattern = "am-subject"
    THEN << Cmd("check", InputSel(id_pattern), value) >>
    ELSE <<>>

\* The inner loop  for id_pattern in field_mappings[data_field]  from pattern i on:
\* the commands it appends (none or one: each append is followed by break).
RECURSIVE WalkPatterns(_, _, _, _)
WalkPatterns(html, data_field, value, i) ==
    LET pats == field_mappings[data_field] IN
    IF i > Len(pats) THEN <<>>
    ELSE IF data_field = "attorney_subject_to_restrictions"
    THEN LET got == RestrictionBranch(pats[i], value) IN
         IF got # <<>> THEN got ELSE WalkPatterns(html, data_field, value, i + 1)
    ELSE IF HasId(html, pats[i])
    THEN << ClassifyElement(html, pats[i], value) >>
    ELSE WalkPatterns(html, data_field, value, i + 1)

\* The commands one data field contributes.
FieldCommandsNoBreak(html, data, data_field) ==
    IF data[data_field] # None /\ data_field \in DOMAIN field_mappings
    THEN WalkPatterns(html, data_field, data[data_field], 1)
         \o WalkPatterns(html, data_field, data[data_field], 2)
    ELSE <<>>

FieldCommands(html, data, data_field) ==
    IF data[data_field] # None /\ data_field \in DOMAIN field_mappings
    THEN WalkPatterns(html, data_field, data[data_field], 1)
    ELSE <<>>

\* The outer loop  for data_field, value in data_dict.items()  from field i on.
RECURSIVE PerFieldCommands(_, _, _)
PerFieldCommands(html, data, i) ==
    IF i > Len(AllFields) THEN <<>>
    ELSE FieldCommands(html, data, AllFields[i]) \o PerFieldCommands(html, data, i + 1)

\* Auto-check attorney-eligible if attorney data exists
EligibleCommandAnyData(html, data) ==
    IF HasId(html, "attorney-eligible")
    THEN << Cmd("check", EligibleSel, Str_attorney) >>
    ELSE <<>>

EligibleCommand(html, data) ==
    IF /\ \E k \in NonNull(data) : k \in AttorneyFields
       /\ HasId(html, "attorney-eligible")
    THEN << Cmd("check", EligibleSel, Str_attorney) >>
    ELSE <<>>

generate_deterministic_commands(html, data) ==
    PerFieldCommands(html, data, 1) \o EligibleCommand(html, data)

(***************************************************************************)
(* FormPopulator._generate_llm_commands                                    *)
(*                                                                         *)
(* What the model service answers is an input.  kind is one of             *)
(*   "raises"  generate_content raises                                     *)
(*   "notext"  response.text is None                                       *)
(*   "notjson" response.text is no JSON document                           *)
(*   "scalar"  a JSON number, true, false or null                          *)
(*   "string"  a non-empty JSON string                                     *)
(*   "object"  a non-empty JSON object                                     *)
(*   "empty"   the JSON string "" or the JSON object {}                    *)
(*   "array"   a JSON array, its elements in items                         *)
(***************************************************************************)
Response(kind, items) == [kind |-> kind, items |-> items]

\* How many commands the debugging loop prints:  commands[:5]
SampleLimit == 5

\* cmd.get('action', 'fill') / cmd.get("action", "fill")
ActionOf(cmd) == IF cmd.action = "<absent>" THEN "fill" ELSE cmd.action

\* The body of  for cmd in commands[:5]  raises: cmd.get on an element that is no
\* dict, or .upper() on an action that is JSON null.
SampleRaises(items) ==
    \E i \in 1..Len(items) :
        /\ i <= SampleLimit
        /\ (items[i].kind # "dict" \/ ActionOf(items[i]) = "<null>")

\* The statements inside  try:  (json.loads to return commands): the value
\* returned, as the sequence its caller iterates over.  len() of a scalar,
\* slicing an object and .get on a character of a string raise and give [];
\* the falsy "" and {} are returned as they are and iterate as nothing.
ParseResponse(resp) ==
    IF resp.kind = "array" /\ ~SampleRaises(resp.items) THEN resp.items ELSE <<>>

\* [raised, cmds, wrote]: whether the call raises, the commands it returns, and
\* whether /tmp/llm_response.json was written.
generate_llm_commands(resp, remaining_data) ==
    IF remaining_data = {}
    THEN [raised |-> FALSE, cmds |-> <<>>, wrote |-> FALSE]
    ELSE IF resp.kind = "raises"
    THEN [raised |-> TRUE, cmds |-> <<>>, wrote |-> FALSE]
    ELSE IF resp.kind = "notext"
    THEN [raised |-> TRUE, cmds |-> <<>>, wrote |-> FALSE]
    ELSE [raised |-> FALSE, cmds |-> ParseResponse(resp), wrote |-> TRUE]

(***************************************************************************)
(* FormPopulator._generate_fill_commands                                   *)
(***************************************************************************)
Selectors(commands) == {commands[i].selector : i \in 1..Len(commands)}

\* remaining_data: the non-null fields whose text is in no command's value
RemainingData(data, commands) ==
    {k \in NonNull(data) :
        ~\E i \in 1..Len(commands) : Contains(commands[i].value, data[k])}

\* cmd.get('selector') on an element that is no dict raises
FilterRaises(llm_commands) ==
    \E i \in 1..Len(llm_commands) : llm_commands[i].kind # "dict"

\* [cmd for cmd in llm_commands if cmd.get('selector') not in filled_selectors]
FilterCommands(llm_commands, filled_selectors) ==
    SelectSeq(llm_commands, LAMBDA cmd : cmd.selector \notin filled_selectors)

\* commands.extend(llm_commands_filtered)
MergeModelFirst(commands, llm_commands_filtered) == llm_commands_filtered \o commands

Merge(commands, llm_commands_filtered) == commands \o llm_commands_filtered

\* [raised, commands, remaining, asked, llm, wrote]: whether the call raises, the
\* merged list, remaining_data, whether the model was asked, what
\* _generate_llm_commands returned, and whether the response file was written.
generate_fill_commands(html, data, resp) ==
    LET commands == generate_deterministic_commands(html, data)
        remaining_data == RemainingData(data, commands)
        got == generate_llm_commands(resp, remaining_data)
    IN  IF remaining_data = {}
        THEN [raised |-> FALSE, commands |-> commands, remaining |-> remaining_data,
              asked |-> FALSE, llm |-> <<>>, wrote |-> FALSE]
        ELSE IF got.raised \/ FilterRaises(got.cmds)
        THEN [raised |-> TRUE, commands |-> <<>>, remaining |-> remaining_data,
              asked |-> TRUE, llm |-> got.cmds, wrote |-> got.wrote]
        ELSE [raised |-> FALSE,
              commands |-> Merge(commands, FilterCommands(got.cmds, Selectors(commands))),
              remaining |-> remaining_data,
              asked |-> TRUE, llm |-> got.cmds, wrote |-> got.wrote]

(***************************************************************************)
(* FormPopulator._convert_date_format                                      *)
(***************************************************************************)
\* date_str.split('/')
RECURSIVE SplitFrom(_, _, _)
SplitFrom(s, i, cur) ==
    IF i > Len(s) THEN << cur >>
    ELSE IF s[i] = "/" THEN << cur >> \o SplitFrom(s, i + 1, <<>>)
    ELSE SplitFrom(s, i + 1, Append(cur, s[i]))

Split(s) == SplitFrom(s, 1, <<>>)

\* part.zfill(2): zeros go after a leading sign
Zfill2(s) ==
    IF Len(s) >= 2 THEN s
    ELSE IF Len(s) = 0 THEN <<"0", "0">>
    ELSE IF s[1] \in {"+", "-"} THEN << s[1], "0" >>
    ELSE << "0", s[1] >>

\* '/' in date_str, inside the try: a TypeError for a value that is no text
ConvertBodyRaises(date_str) == ~IsText(date_str)

\* except Exception as e: print(...); return date_str
OnConvertErrorPropagated(date_str) == <<"<raised>">>

OnConvertError(date_str) == date_str

\* f"{year}-{month.zfill(2)}-{day.zfill(2)}"
FormatDateSlashes(year, month, day) ==
    year \o <<"/">> \o Zfill2(month) \o <<"/">> \o Zfill2(day)

FormatDateDayFirst(year, month, day) ==
    year \o <<"-">> \o Zfill2(day) \o <<"-">> \o Zfill2(month)

FormatDate(year, month, day) ==
    year \o <<"-">> \o Zfill2(month) \o <<"-">> \o Zfill2(day)

\* if '/' in date_str: parts = date_str.split('/'); if len(parts) == 3:
\*     month, day, year = parts; return f"..."
\* return date_str
convert_date_format(date_str) ==
    IF ConvertBodyRaises(date_str) THEN OnConvertError(date_str)
    ELSE IF Contains(date_str, <<"/">>) /\ Len(Split(date_str)) = 3
    THEN LET parts == Split(date_str) IN FormatDate(parts[3], parts[1], parts[2])
    ELSE date_str

(***************************************************************************)
(* The live page: the elements of the form (dom) and what each holds.      *)
(***************************************************************************)
\* page.locator(selector): the elements a selector tag[id='x'] resolves to
Located(dom, selector) ==
    IF Len(selector) = 3 /\ selector[2] = "id"
    THEN {e \in dom : e.tag = selector[1] /\ e.id = selector[3]}
    ELSE {}

\* not selector
NoSelector(selector) == selector = None \/ selector = EmptyStr

\* What one pass of the executor's loop comes to, before any failure:
\*   "noselector"  continue, before the try
\*   "notfound"    page.locator(selector).count() is 0
\*   "novalue"     the element is there and the value guard of date / fill is false
\*   "select" / "click" / "fill"  the page call made on the located element
PageCall(dom, cmd) ==
    IF NoSelector(cmd.selector) THEN "noselector"
    ELSE IF Located(dom, cmd.selector) = {} THEN "notfound"
    ELSE IF ActionOf(cmd) = "select" THEN "select"
    ELSE IF ActionOf(cmd) = "check" THEN "click"
    ELSE IF ActionOf(cmd) = "date"
    THEN (IF cmd.value # None /\ cmd.value # EmptyStr THEN "fill" ELSE "novalue")
    ELSE (IF cmd.value # None THEN "fill" ELSE "novalue")

\* What a fill passes to the page: converted_date for a date, str(value) otherwise
FillTextUnconverted(cmd) == Str(cmd.value)

FillText(cmd) ==
    IF ActionOf(cmd) = "date" THEN convert_date_format(cmd.value) ELSE Str(cmd.value)

\* The element is unfit for the call (the page raises whatever else happens):
\* several elements located, fill of a checkbox, fill with something that is no
\* text, select_option of a non-select.
Unfit(dom, cmd, call) ==
    LET els == Located(dom, cmd.selector) IN
    \/ Cardinality(els) > 1
    \/ call = "fill" /\ ~IsText(FillText(cmd))
    \/ call = "fill" /\ \E e \in els : e.tag = "input" /\ e.type = "checkbox"
    \/ call = "select" /\ \E e \in els : e.tag # "select"

\* The page after a call that did not raise
AfterCall(page, dom, cmd, call) ==
    LET id == cmd.selector[3] IN
    IF call = "click"
    THEN [page EXCEPT ![id].checked = ~page[id].checked]
    ELSE [page EXCEPT ![id].value = FillText(cmd)]

(***************************************************************************)
(* State.                                                                  *)
(***************************************************************************)
VARIABLES
    data,          \* the record handed to populate_form
    dom,           \* the elements of the form the browser shows
    page,          \* what each element holds: [value, checked]
    pc,            \* where populate_form stands
    raised_at,     \* the step whose exception left populate_form ("" if none)
    session,       \* session.id ("" before the session exists)
    form_html,     \* page.content()
    commands,      \* fill_commands
    remaining,     \* remaining_data of _generate_fill_commands
    asked,         \* whether _generate_llm_commands was called
    llm_response,  \* what the model answered (<<>> if it was not asked)
    llm_commands,  \* what _generate_llm_commands returned
    idx,           \* the executor's position in commands
    filled,        \* the executor's count
    log,           \* one entry per pass of the executor's loop
    faults,        \* page calls that failed so far
    files,         \* the files under /tmp: [html, llm, png], each <<>> or <<content>>
    result         \* what populate_form returned: <<>> or <<artifact>>

VARIABLES
    passport_file_path,  \* first argument of extract_all_data
    g28_file_path,       \* second argument of extract_all_data
    x_pc,                \* where extract_all_data stands
    cur,                 \* the document being uploaded: "passport" or "g28"
    file_state,          \* uploaded_file.state of the document being uploaded
    polls,               \* client.files.get calls made for it
    uploaded_files,      \* uploaded_files
    response_text,       \* response.text of the extraction request
    uploads,             \* client.files.upload calls made
    requests,            \* client.models.generate_content calls made
    x_failed,            \* the step of extract_all_data that raised ("" if none)
    x_result             \* what extract_all_data returned: <<>> or <<record>>

\* Two calls of populate_form on one host.  The variables above that belong to
\* a call (all of them but files) are those of the call that is running; the
\* call that is not running keeps its own in other.
VARIABLES
    other,         \* the variables of the call that is not running (<<>>: none)
    me             \* which call is running: 1 or 2

runvars == << data, dom, page, pc, raised_at, session, form_html, commands,
              remaining, asked, llm_response, llm_commands, idx, filled, log,
              faults, files, result >>

xvars == << passport_file_path, g28_file_path, x_pc, cur, file_state, polls,
            uploaded_files, response_text, uploads, requests, x_failed, x_result >>

cvars == << other, me >>

vars == << runvars, xvars, cvars >>

(***************************************************************************)
(* Inputs.                                                                 *)
(***************************************************************************)
Str_Am == <<"A", "m">>
Str_amNOT == <<"a", "m", " ", "N", "O", "T">>
Str_at == <<"a", "t">>
Str_x == <<"x">>

Values == {Str_Am, Str_amNOT, Str_at}

MatchFields == {"attorney_family_name", "attorney_subject_to_restrictions",
                "beneficiary_last_name", "client_family_name"}

RunFields == {"attorney_family_name", "client_family_name"}

\* The records with at most n non-null fields, all among fields
RecordsOver(fields, values, n) ==
    LET chosen == {S \in SUBSET fields : Cardinality(S) <= n}
        maps == UNION {[S -> values] : S \in chosen}
    IN  {[f \in FieldNames |-> IF f \in DOMAIN m THEN m[f] ELSE None] : m \in maps}

El(tag, type, id, q) == [tag |-> tag, type |-> type, id |-> id, q |-> q]

El_last == El("input", "text", "last-name", "dq")
El_family == El("input", "text", "family-name", "sq")
El_eligible == El("input", "checkbox", "attorney-eligible", "dq")
El_dob == El("input", "date", "passport-dob", "dq")
El_state == El("select", "", "state", "dq")

\* The order in which elements stand in the markup
ElementOrder == << El_family, El_last, El_state, El_dob, El_eligible >>

\* page.content(): the markup of the elements present
RECURSIVE RenderFrom(_, _)
RenderFrom(els, i) ==
    IF i > Len(ElementOrder) THEN <<>>
    ELSE (IF ElementOrder[i] \in els THEN RenderElement(ElementOrder[i]) ELSE <<>>)
         \o RenderFrom(els, i + 1)

Render(els) == RenderFrom(els, 1)

FreshPage(els) == [id \in {e.id : e \in els} |-> [value |-> EmptyStr, checked |-> FALSE]]

\* Elements of a model response array
LlmEligible == Cmd("check", EligibleSel, None)
Filler(i) == Cmd("fill", <<"input", "name", ToString(i)>>, Str_x)
Pad(n) == [i \in 1..n |-> Filler(i)]
TailElems == {LlmEligible, NotADict}
Tails == UNION {[1..k -> TailElems] : k \in 0..MaxTail}

ScalarResponses ==
    {Response(k, <<>>) : k \in {"raises", "notext", "notjson", "scalar", "string",
                               "object", "empty"}}

\* Arrays of no or SampleLimit well-formed commands followed by a free tail
LlmResponses ==
    ScalarResponses \cup {Response("array", Pad(n) \o t) : n \in {0, SampleLimit}, t \in Tails}

RunResponses ==
    {Response("raises", <<>>), Response("notjson", <<>>)}
        \cup {Response("array", t) : t \in Tails}

NoFiles == [html |-> <<>>, llm |-> <<>>, png |-> <<>>]

(***************************************************************************)
(* FormPopulator.populate_form                                             *)
(***************************************************************************)
InitRun(records, doms, at) ==
    /\ data \in records
    /\ dom \in doms
    /\ page = FreshPage(dom)
    /\ pc = at
    /\ raised_at = ""
    /\ session = IF at = "start" THEN "" ELSE "s1"
    /\ form_html = IF at = "loaded" THEN Render(dom) ELSE <<>>
    /\ commands = <<>>
    /\ remaining = {}
    /\ asked = FALSE
    /\ llm_response = <<>>
    /\ llm_commands = <<>>
    /\ idx = 0
    /\ filled = 0
    /\ log = <<>>
    /\ faults = 0
    /\ files = NoFiles
    /\ result = <<>>

\* No second call of populate_form
NoRun == <<>>

Alone ==
    /\ other = NoRun
    /\ me = 1

\* The variables of a call of populate_form(data) that has not started, the
\* form showing the elements of d
NotStarted(record, d) ==
    [data |-> record, dom |-> d, page |-> FreshPage(d), pc |-> "start",
     raised_at |-> "", session |-> "", form_html |-> <<>>, commands |-> <<>>,
     remaining |-> {}, asked |-> FALSE, llm_response |-> <<>>,
     llm_commands |-> <<>>, idx |-> 0, filled |-> 0, log |-> <<>>,
     faults |-> 0, result |-> <<>>]

\* The variables of the call that is running
Running ==
    [data |-> data, dom |-> dom, page |-> page, pc |-> pc,
     raised_at |-> raised_at, session |-> session, form_html |-> form_html,
     commands |-> commands, remaining |-> remaining, asked |-> asked,
     llm_response |-> llm_response, llm_commands |-> llm_commands, idx |-> idx,
     filled |-> filled, log |-> log, faults |-> faults, result |-> result]

\* The scheduler takes the other call up: each call keeps its locals, its
\* session and its page; the files under /tmp are the host's
Switch ==
    /\ other # NoRun
    /\ other' = Running
    /\ me' = 3 - me
    /\ data' = other.data
    /\ dom' = other.dom
    /\ page' = other.page
    /\ pc' = other.pc
    /\ raised_at' = other.raised_at
    /\ session' = other.session
    /\ form_html' = other.form_html
    /\ commands' = other.commands
    /\ remaining' = other.remaining
    /\ asked' = other.asked
    /\ llm_response' = other.llm_response
    /\ llm_commands' = other.llm_commands
    /\ idx' = other.idx
    /\ filled' = other.filled
    /\ log' = other.log
    /\ faults' = other.faults
    /\ result' = other.result
    /\ UNCHANGED << files, xvars >>

\* session.id: the service gives every call a session of its own
SessionId(call) == IF call = 1 THEN "s1" ELSE "s2"

\* except Exception as e: print(...); raise  -- where populate_form stands
\* after an exception at step
OnPopulateErrorSwallowed(step) == "executed"

OnPopulateError(step) == "raised"

\* An exception raised at step inside populate_form's try
Raise(step) ==
    /\ pc' = OnPopulateError(step)
    /\ raised_at' = step

\* session = self.bb.sessions.create(project_id=self.project_id)
CreateSession ==
    /\ pc = "start"
    /\ \/ /\ pc' = "session"
          /\ session' = SessionId(me)
          /\ UNCHANGED raised_at
       \/ /\ Raise("create")
          /\ UNCHANGED session
    /\ UNCHANGED << data, dom, page, form_html, commands, remaining, asked,
                    llm_response, llm_commands, idx, filled, log, faults, files, result >>
    /\ UNCHANGED << xvars, cvars >>

\* playwright.chromium.connect_over_cdp(session.connect_url); contexts[0]; pages[0]
Connect ==
    /\ pc = "session"
    /\ \/ /\ pc' = "connected"
          /\ UNCHANGED raised_at
       \/ Raise("connect")
    /\ UNCHANGED << data, dom, page, session, form_html, commands, remaining, asked,
                    llm_response, llm_commands, idx, filled, log, faults, files, result >>
    /\ UNCHANGED << xvars, cvars >>

\* page.goto(self.form_url, ...); page.wait_for_timeout(2000); form_html = page.content()
Navigate ==
    /\ pc = "connected"
    /\ \/ /\ pc' = "loaded"
          /\ form_html' = Render(dom)
          /\ UNCHANGED raised_at
       \/ /\ Raise("navigate")
          /\ UNCHANGED form_html
    /\ UNCHANGED << data, dom, page, session, commands, remaining, asked,
                    llm_response, llm_commands, idx, filled, log, faults, files, result >>
    /\ UNCHANGED << xvars, cvars >>

\* fill_commands = self._generate_fill_commands(form_html, data), the model
\* answering with one of responses
Generate(responses) ==
    /\ pc = "loaded"
    /\ \E resp \in responses :
        \E got \in {generate_fill_commands(form_html, data, resp)} :
        /\ remaining' = got.remaining
        /\ asked' = got.asked
        /\ llm_response' = IF got.asked THEN << resp >> ELSE <<>>
        /\ llm_commands' = got.llm
        /\ files' = [files EXCEPT !.html = << form_html >>,
                                  !.llm = IF got.wrote THEN << resp >> ELSE @]
        /\ IF got.raised
           THEN /\ Raise("generate")
                /\ UNCHANGED << commands, idx >>
           ELSE /\ pc' = "executing"
                /\ commands' = got.commands
                /\ idx' = 1
                /\ UNCHANGED raised_at
    /\ UNCHANGED << data, dom, page, session, form_html, filled, log, faults, result >>
    /\ UNCHANGED << xvars, cvars >>

(***************************************************************************)
(* FormPopulator._execute_fill_commands, one pass of its loop per step     *)
(***************************************************************************)
\* filled += 1 after the page call returned
FilledAfter(n, outcome) == IF outcome = "applied" THEN n + 1 ELSE n

\* for cmd in commands: the loop goes on to the next command whatever happened
NextIndexStopsOnError(i, outcome, n) == IF outcome = "error" THEN n + 1 ELSE i + 1

NextIndex(i, outcome, n) == i + 1

\* except Exception as e: print(...)  -- the exception goes no further
AfterAttempt(outcome) == "executing"

\* The argument of the page.fill the pass reached (None: it reached none)
Sent(cmd, outcome) ==
    IF PageCall(dom, cmd) = "fill" /\ outcome \in {"applied", "error"}
    THEN FillText(cmd) ELSE None

\* The ways one pass can end
Outcomes(cmd) ==
    LET call == PageCall(dom, cmd) IN
    IF call \in {"noselector", "notfound", "novalue"} THEN {call}
    ELSE IF Unfit(dom, cmd, call) THEN {"error"}
    ELSE {"applied"}

ExecStep ==
    /\ pc = "executing"
    /\ idx <= Len(commands)
    /\ LET cmd == commands[idx] IN
       \E outcome \in Outcomes(cmd) \cup
                      (IF faults < MaxFaults /\ ~NoSelector(cmd.selector)
                       THEN {"fault"} ELSE {}) :
        LET how == IF outcome = "fault" THEN "error" ELSE outcome IN
        /\ log' = Append(log, [i |-> idx, outcome |-> how,
                                sent |-> Sent(cmd, outcome)])
        /\ filled' = FilledAfter(filled, how)
        /\ idx' = NextIndex(idx, how, Len(commands))
        /\ pc' = AfterAttempt(how)
        /\ faults' = IF outcome = "fault" THEN faults + 1 ELSE faults
        /\ page' = IF how = "applied"
                   THEN AfterCall(page, dom, cmd, PageCall(dom, cmd))
                   ELSE page
    /\ UNCHANGED << data, dom, raised_at, session, form_html, commands, remaining,
                    asked, llm_response, llm_commands, files, result >>
    /\ UNCHANGED << xvars, cvars >>

\* return filled
ExecReturn ==
    /\ pc = "executing"
    /\ idx > Len(commands)
    /\ pc' = "executed"
    /\ UNCHANGED << data, dom, page, raised_at, session, form_html, commands,
                    remaining, asked, llm_response, llm_commands, idx, filled, log,
                    faults, files, result >>
    /\ UNCHANGED << xvars, cvars >>

ScreenshotPath == "/tmp/populated_form.png"

\* f"https://www.browserbase.com/sessions/{session_id}"
SessionUrl(session_id) == << "https://www.browserbase.com/sessions/", session_id >>

\* page.wait_for_timeout(1000); page.screenshot(path=...); return {...}
Finish ==
    /\ pc = "executed"
    /\ \/ /\ pc' = "returned"
          /\ files' = [files EXCEPT !.png = << page >>]
          /\ result' = << [screenshot |-> ScreenshotPath,
                           session_url |-> SessionUrl(session),
                           session_id |-> session,
                           fields_filled |-> filled] >>
          /\ UNCHANGED raised_at
       \/ /\ Raise("screenshot")
          /\ UNCHANGED << files, result >>
    /\ UNCHANGED << data, dom, page, session, form_html, commands, remaining, asked,
                    llm_response, llm_commands, idx, filled, log, faults >>
    /\ UNCHANGED << xvars, cvars >>

(***************************************************************************)
(* extract_all_data and upload_document_to_gemini (src/main.py)            *)
(***************************************************************************)
NoPath == "<None>"                      \* the argument is None

\* What a path names on disk: "missing" names no file
PathExists(file_path) == file_path \notin {NoPath, "", "missing"}

\* if passport_file_path:  /  if g28_file_path:
Supplied(file_path) == file_path \notin {NoPath, ""}

Paths == {NoPath, "", "missing", "doc"}

\* FormA28Data.model_validate_json(response.text): text is [json, obj]; obj maps
\* the keys of the JSON object to their values.  A key missing from obj is a
\* field absent, a key outside the schema is ignored, and a value that is
\* neither text nor null fails validation.
ValidateRaises(text) ==
    \/ ~text.json
    \/ \E k \in DOMAIN text.obj : k \in FieldNames /\ text.obj[k] = JsonNumber

model_validate_json(text) ==
    [f \in FieldNames |-> IF f \in DOMAIN text.obj THEN text.obj[f] ELSE None]

ExtractKeys == {"passport_number", "client_email", "unknown_key"}
ExtractValues == {Str_Am, None, JsonNumber}

ResponseTexts ==
    {[json |-> FALSE, obj |-> << >>]} \cup
    {[json |-> TRUE, obj |-> m] :
        m \in UNION {[S -> ExtractValues] :
                        S \in {T \in SUBSET ExtractKeys : Cardinality(T) <= MaxNonNull}}}

NoText == [json |-> FALSE, obj |-> << >>]

XIdle ==
    /\ passport_file_path = NoPath
    /\ g28_file_path = NoPath
    /\ x_pc = "idle"
    /\ cur = ""
    /\ file_state = ""
    /\ polls = 0
    /\ uploaded_files = <<>>
    /\ response_text = NoText
    /\ uploads = 0
    /\ requests = 0
    /\ x_failed = ""
    /\ x_result = <<>>

InitExtract ==
    /\ passport_file_path \in Paths
    /\ g28_file_path \in Paths
    /\ x_pc = "passport"
    /\ cur = ""
    /\ file_state = ""
    /\ polls = 0
    /\ uploaded_files = <<>>
    /\ response_text = NoText
    /\ uploads = 0
    /\ requests = 0
    /\ x_failed = ""
    /\ x_result = <<>>

\* except Exception as e: print(...); return FormA28Data()
OnExtractErrorPropagated == [pc |-> "raised", result |-> <<>>]

OnExtractError == [pc |-> "done", result |-> << EmptyRecord >>]

\* An exception raised at step inside extract_all_data's try
XRaise(step) ==
    /\ x_pc' = OnExtractError.pc
    /\ x_result' = OnExtractError.result
    /\ x_failed' = step

PathOf(which) == IF which = "passport" THEN passport_file_path ELSE g28_file_path

\* The step after the upload of which
AfterUpload(which) == IF which = "passport" THEN "g28" ELSE "request"

\* if <path>: upload_document_to_gemini(<path>) up to client.files.upload(file=...)
BeginUpload(which) ==
    /\ x_pc = which
    /\ IF ~Supplied(PathOf(which))
       THEN /\ x_pc' = AfterUpload(which)
            /\ UNCHANGED << cur, file_state, polls, uploads, x_failed, x_result >>
       ELSE IF ~PathExists(PathOf(which))
       THEN /\ XRaise("exists")
            /\ UNCHANGED << cur, file_state, polls, uploads >>
       ELSE /\ uploads' = uploads + 1
            /\ \/ /\ XRaise("upload")
                  /\ UNCHANGED << cur, file_state, polls >>
               \/ /\ \E st \in {"PROCESSING", "ACTIVE", "FAILED"} : file_state' = st
                  /\ cur' = which
                  /\ polls' = 0
                  /\ x_pc' = "polling"
                  /\ UNCHANGED << x_failed, x_result >>
    /\ UNCHANGED << passport_file_path, g28_file_path, uploaded_files, response_text,
                    requests >>
    /\ UNCHANGED << runvars, cvars >>

\* while uploaded_file.state == "PROCESSING":
StillProcessingUnlessActive(state) == state # "ACTIVE"

StillProcessing(state) == state = "PROCESSING"

\* while uploaded_file.state == "PROCESSING": time.sleep(2); client.files.get(...)
Poll ==
    /\ x_pc = "polling"
    /\ StillProcessing(file_state)
    /\ polls < MaxPolls
    /\ polls' = polls + 1
    /\ \/ /\ XRaise("get")
          /\ UNCHANGED file_state
       \/ /\ \E st \in {"PROCESSING", "ACTIVE", "FAILED"} : file_state' = st
          /\ UNCHANGED << x_pc, x_failed, x_result >>
    /\ UNCHANGED << passport_file_path, g28_file_path, cur, uploaded_files,
                    response_text, uploads, requests >>
    /\ UNCHANGED << runvars, cvars >>

\* The loop is left: FAILED raises, any other state returns the handle, which
\* extract_all_data appends to uploaded_files.
FinishUpload ==
    /\ x_pc = "polling"
    /\ ~StillProcessing(file_state)
    /\ IF file_state = "FAILED"
       THEN /\ XRaise("failed")
            /\ UNCHANGED uploaded_files
       ELSE /\ uploaded_files' = Append(uploaded_files, [doc |-> cur, state |-> file_state])
            /\ x_pc' = AfterUpload(cur)
            /\ UNCHANGED << x_failed, x_result >>
    /\ UNCHANGED << passport_file_path, g28_file_path, cur, file_state, polls,
                    response_text, uploads, requests >>
    /\ UNCHANGED << runvars, cvars >>

\* if not uploaded_files: return FormA28Data();  else client.models.generate_content
Request ==
    /\ x_pc = "request"
    /\ IF uploaded_files = <<>>
       THEN /\ x_pc' = "done"
            /\ x_result' = << EmptyRecord >>
            /\ UNCHANGED << response_text, requests, x_failed >>
       ELSE /\ requests' = requests + 1
            /\ \/ /\ XRaise("request")
                  /\ UNCHANGED response_text
               \/ /\ response_text' \in ResponseTexts
                  /\ x_pc' = "parse"
                  /\ UNCHANGED << x_failed, x_result >>
    /\ UNCHANGED << passport_file_path, g28_file_path, cur, file_state, polls,
                    uploaded_files, uploads >>
    /\ UNCHANGED << runvars, cvars >>

\* extracted_data = FormA28Data.model_validate_json(response.text); return it
Parse ==
    /\ x_pc = "parse"
    /\ IF ValidateRaises(response_text)
       THEN XRaise("parse")
       ELSE /\ x_pc' = "done"
            /\ x_result' = << model_validate_json(response_text) >>
            /\ UNCHANGED x_failed
    /\ UNCHANGED << passport_file_path, g28_file_path, cur, file_state, polls,
                    uploaded_files, response_text, uploads, requests >>
    /\ UNCHANGED << runvars, cvars >>

(***************************************************************************)
(* Specifications.                                                         *)
(***************************************************************************)
RunValues == {Str_Am, Str_at}
RunDoms == SUBSET {El_family, El_eligible}
MatchDoms == SUBSET {El_family, El_last, El_dob, El_eligible}

\* populate_form, from its call to its return or exception
Init ==
    /\ InitRun(RecordsOver(RunFields, RunValues, MaxNonNull), RunDoms, "start")
    /\ XIdle
    /\ Alone

Next ==
    \/ CreateSession
    \/ Connect
    \/ Navigate
    \/ Generate(RunResponses)
    \/ ExecStep
    \/ ExecReturn
    \/ Finish

Spec == Init /\ [][Next]_vars

\* _generate_fill_commands on a loaded page, over wider inputs
InitMatch ==
    /\ InitRun(RecordsOver(MatchFields, Values, MaxNonNull), MatchDoms, "loaded")
    /\ XIdle
    /\ Alone

NextMatch == Generate(LlmResponses)

SpecMatch == InitMatch /\ [][NextMatch]_vars

\* extract_all_data, from its call to its return
InitX ==
    /\ InitRun({EmptyRecord}, {{}}, "idle")
    /\ InitExtract
    /\ Alone

NextX ==
    \/ BeginUpload("passport")
    \/ BeginUpload("g28")
    \/ Poll
    \/ FinishUpload
    \/ Request
    \/ Parse

SpecExtract == InitX /\ [][NextX]_vars

\* extract_all_data is one thread of sequential code: whenever it has a next
\* step (a call that returns or raises, a sleep that ends) it takes it.
SpecExtractFair == InitX /\ [][NextX]_vars /\ WF_vars(NextX)

\* _execute_fill_commands alone, on any short list of commands
ExecDom == {El_last, El_state, El_eligible}

ExecCmds ==
    { Cmd("fill", InputSel("last-name"), Str_Am),
      Cmd("<absent>", InputSel("last-name"), None),
      Cmd("date", InputSel("last-name"), EmptyStr),
      Cmd("check", EligibleSel, None),
      Cmd("fill", EligibleSel, Str_at),
      Cmd("select", SelectSel("state"), Str_at),
      Cmd("fill", InputSel("family-name"), Str_Am),
      Cmd("fill", EmptyStr, Str_Am) }

InitExec ==
    /\ data = EmptyRecord
    /\ dom = ExecDom
    /\ page = FreshPage(dom)
    /\ pc = "executing"
    /\ raised_at = ""
    /\ session = "s1"
    /\ form_html = Render(dom)
    /\ commands \in UNION {[1..n -> ExecCmds] : n \in 0..MaxCmds}
    /\ remaining = {}
    /\ asked = FALSE
    /\ llm_response = <<>>
    /\ llm_commands = <<>>
    /\ idx = 1
    /\ filled = 0
    /\ log = <<>>
    /\ faults = 0
    /\ files = NoFiles
    /\ result = <<>>
    /\ XIdle
    /\ Alone

NextExec ==
    \/ ExecStep
    \/ ExecReturn

SpecExec == InitExec /\ [][NextExec]_vars

\* Date values: every text of at most MaxDateLen characters over DateChars, and
\* some full-length dates.  A record holds one as its date of birth and goes
\* through the matcher and the executor; a command list handed to the executor
\* may also carry a value that is no text.
DateChars == {"1", "2", "/", "-"}

Date_0504 == <<"0", "5", "/", "0", "4", "/", "1", "9", "9", "1">>
Date_1231 == <<"1", "2", "/", "3", "1", "/", "1", "9", "9", "9">>
Date_iso == <<"1", "9", "9", "1", "-", "0", "5", "-", "0", "4">>
Date_54 == <<"5", "/", "4", "/", "1", "9", "9", "1">>

DateSamples == {Date_0504, Date_1231, Date_iso, Date_54}

DateStrings == UNION {[1..n -> DateChars] : n \in 0..MaxDateLen} \cup DateSamples

DobSel == InputSel("passport-dob")

DateRecords ==
    {[EmptyRecord EXCEPT !.beneficiary_date_of_birth = s] : s \in DateStrings}

DateCmds == {Cmd("date", DobSel, v) : v \in DateSamples \cup {JsonNumber, None}}

InitDate ==
    \/ /\ InitRun(DateRecords, {{El_dob}}, "loaded")
       /\ XIdle
       /\ Alone
    \/ /\ data = EmptyRecord
       /\ dom = {El_dob}
       /\ page = FreshPage(dom)
       /\ pc = "executing"
       /\ raised_at = ""
       /\ session = "s1"
       /\ form_html = Render(dom)
       /\ commands \in {<< c >> : c \in DateCmds}
       /\ remaining = {}
       /\ asked = FALSE
       /\ llm_response = <<>>
       /\ llm_commands = <<>>
       /\ idx = 1
       /\ filled = 0
       /\ log = <<>>
       /\ faults = 0
       /\ files = NoFiles
       /\ result = <<>>
       /\ XIdle
       /\ Alone

NextDate ==
    \/ Generate(RunResponses)
    \/ ExecStep
    \/ ExecReturn

SpecDate == InitDate /\ [][NextDate]_vars

\* Two calls of populate_form that overlap: each has a record and a form of
\* its own, and the scheduler may take up the other call between any two steps.
TwoRecords == RecordsOver({"attorney_family_name"}, RunValues, 1)
TwoDoms == {{El_family}, {El_family, El_eligible}}

InitTwo ==
    /\ InitRun(TwoRecords, TwoDoms, "start")
    /\ XIdle
    /\ me = 1
    /\ other \in {NotStarted(r, d) : r \in TwoRecords, d \in TwoDoms}

NextTwo ==
    \/ Next
    \/ Switch

SpecTwo == InitTwo /\ [][NextTwo]_vars

(***************************************************************************)
(* Properties.                                                             *)
(***************************************************************************)
\* populate_form holds a merged command list
HasMerged ==
    \/ pc \in {"executing", "executed", "returned"}
    \/ pc = "raised" /\ raised_at = "screenshot"

\* What the deterministic matcher emits on the markup and record at hand
PerField == PerFieldCommands(form_html, data, 1)
Derived == EligibleCommand(form_html, data)

\* The commands of the model's answer whose selector is none of the first n merged
Survivors(n) ==
    SelectSeq(llm_commands,
              LAMBDA c : \A k \in 1..n : k <= Len(commands) => commands[k].selector # c.selector)

\* The fields for which the deterministic matcher emitted a command
Resolved == {f \in NonNull(data) : FieldCommands(form_html, data, f) # <<>>}

AttorneyDataAndId ==
    /\ \E f \in AttorneyFields : data[f] # None
    /\ HasId(form_html, "attorney-eligible")

\* C1: the merged operation list never holds two operations with the same
\* selector, whichever matcher they come from.
C1_NoDuplicateSelectors ==
    HasMerged =>
        \A i, j \in 1..Len(commands) :
            i # j => commands[i].selector # commands[j].selector

\* C2 as stated: the per-field deterministic operations come first, then the
\* model operations that survived deduplication, and the derived
\* attorney-eligible operation comes last.
C2_EligibleLast ==
    HasMerged =>
        commands = PerField \o Survivors(Len(PerField) + Len(Derived)) \o Derived

\* C2 as amended: the per-field deterministic operations come first, then the
\* derived attorney-eligible operation (when present), then the model
\* operations that survived deduplication.
C2_EligibleBeforeModel ==
    HasMerged =>
        LET n == Len(PerField)
            e == Len(Derived)
        IN  /\ Len(commands) >= n + e
            /\ SubSeq(commands, 1, n) = PerField
            /\ SubSeq(commands, n + 1, n + e) = Derived
            /\ SubSeq(commands, n + e + 1, Len(commands)) = Survivors(n + e)

C2_Witness ==
    /\ HasMerged
    /\ PerField # <<>>
    /\ Derived # <<>>
    /\ Len(commands) > Len(PerField) + Len(Derived)

\* C3: the executor attempts every operation in list order, a failed or skipped
\* operation stops nothing, the call never raises, and the count is the number
\* of operations applied without error.
C3_ExecutorTotal ==
    /\ pc \in {"executing", "executed"}
    /\ raised_at = ""
    /\ \A k \in 1..Len(log) : log[k].i = k
    /\ Len(log) <= Len(commands)
    /\ pc = "executing" => idx = Len(log) + 1
    /\ pc = "executed" => Len(log) = Len(commands)
    /\ filled = Cardinality({k \in 1..Len(log) : log[k].outcome = "applied"})
    /\ \A k \in 1..Len(log) :
          /\ NoSelector(commands[k].selector) => log[k].outcome = "noselector"
          /\ log[k].outcome = "applied" =>
                PageCall(dom, commands[k]) \in {"select", "click", "fill"}

C3_Witness ==
    /\ pc = "executed"
    /\ Len(log) = 3
    /\ log[1].outcome = "error"
    /\ log[2].outcome \in {"noselector", "notfound", "novalue"}
    /\ log[3].outcome = "applied"
    /\ filled = 1

\* The model's answer is not an array of operation objects
Malformed(resp) ==
    \/ resp.kind \in {"notjson", "scalar", "string", "object"}
    \/ resp.kind = "array" /\ \E i \in 1..Len(resp.items) : resp.items[i].kind # "dict"

\* C4: whenever the model's answer is not the expected structure, the model
\* matcher returns an empty sequence without raising and the merged list is the
\* deterministic matcher's result.
C4_MalformedGivesDeterministic ==
    (asked /\ Malformed(llm_response[1])) =>
        /\ pc = "executing"
        /\ llm_commands = <<>>
        /\ commands = PerField \o Derived

\* C5: once the form is loaded, no failure of the matching or fill stages
\* aborts populate_form.
C5_MatchFailureNotFatal ==
    raised_at \in {"generate", "execute"} => pc # "raised"

\* C6: extract_all_data never raises; when any step fails it returns the record
\* with every field absent, also when the first document was uploaded and the
\* second failed; with no path supplied it returns that record without any
\* upload or model request.
C6_ExtractNeverRaises ==
    /\ x_pc # "raised"
    /\ x_failed # "" => x_pc = "done" /\ x_result = << EmptyRecord >>
    /\ (x_pc = "done" /\ ~Supplied(passport_file_path) /\ ~Supplied(g28_file_path)) =>
          /\ x_result = << EmptyRecord >>
          /\ uploads = 0
          /\ requests = 0

C6_Witness ==
    /\ x_pc = "done"
    /\ Len(uploaded_files) = 1
    /\ uploaded_files[1].doc = "passport"
    /\ x_failed \in {"exists", "upload", "get", "failed"}
    /\ x_result = << EmptyRecord >>

\* C7: the residual field set handed to the model matcher is exactly the set of
\* non-null fields for which the deterministic matcher emitted no operation.
C7_ResidualIsUnresolved ==
    (HasMerged \/ raised_at = "generate") => remaining = NonNull(data) \ Resolved

\* C8: a failure of session creation, of connecting or of navigating leaves
\* populate_form as an exception: no artifact is returned and no fill operation
\* is executed.
C8_SessionFailureFatal ==
    raised_at \in {"create", "connect", "navigate"} =>
        /\ pc = "raised"
        /\ result = <<>>
        /\ log = <<>>
        /\ filled = 0
        /\ commands = <<>>

C8_Witness ==
    /\ pc = "raised"
    /\ raised_at = "navigate"
    /\ session = "s1"

EligiblePositions == {i \in 1..Len(commands) : commands[i].selector = EligibleSel}

\* C9 as stated: an operation with selector input[id='attorney-eligible']
\* appears at most once in the merged list, and only if an attorney_ field is
\* non-null and the id is in the markup.
C9_EligibleOnceIfAttorney ==
    HasMerged =>
        /\ Cardinality(EligiblePositions) <= 1
        /\ EligiblePositions # {} => AttorneyDataAndId

\* C9 as amended: the deterministic matcher contributes such an operation at
\* most once, and only if an attorney_ field is non-null and the id is in the
\* markup; when it contributes one, it is the only operation with that selector
\* in the merged list.
C9_DerivedEligibleOnce ==
    HasMerged =>
        LET n == Len(PerField) + Len(Derived)
            own == {i \in EligiblePositions : i <= n}
        IN  /\ Cardinality(own) <= 1
            /\ own # {} => (AttorneyDataAndId /\ EligiblePositions = own)

C9_Witness ==
    /\ HasMerged
    /\ asked
    /\ \E i \in 1..Len(llm_commands) : llm_commands[i].selector = EligibleSel
    /\ Cardinality(EligiblePositions) = 1
    /\ AttorneyDataAndId

Restriction == data["attorney_subject_to_restrictions"]

\* The positions of the deterministic part that target id
DetTargets(id) ==
    {i \in 1..(Len(PerField) + Len(Derived)) :
        i <= Len(commands) /\ commands[i].selector = InputSel(id)}

\* C10: for attorney_subject_to_restrictions, in any letter casing, a value
\* containing 'not' never yields a check on am-subject, a value not containing
\* 'not' never yields a check on not-subject, and the deterministic matcher
\* emits at most one operation for the field.
C10_RestrictionExclusive ==
    (HasMerged /\ Restriction # None) =>
        /\ Contains(Lower(Restriction), Str_not) => DetTargets("am-subject") = {}
        /\ ~Contains(Lower(Restriction), Str_not) => DetTargets("not-subject") = {}
        /\ Cardinality(DetTargets("am-subject") \cup DetTargets("not-subject")) <= 1

C10_Witness ==
    /\ HasMerged
    /\ Restriction = Str_amNOT
    /\ DetTargets("not-subject") # {}

\* The passes of the executor that handed a converted date to page.fill
DatePasses ==
    {k \in 1..Len(log) :
        ActionOf(commands[log[k].i]) = "date" /\ log[k].sent # None}

\* The command of pass k
PassCmd(k) == commands[log[k].i]

\* C11: converting is idempotent: what the executor hands to the page for a
\* date command is a fixed point of the conversion, and a value without '/'
\* (so one already in year-month-day notation) is handed over unchanged.
C11_ConvertIdempotent ==
    \A k \in DatePasses :
        /\ convert_date_format(log[k].sent) = log[k].sent
        /\ (IsText(PassCmd(k).value) /\ ~Contains(PassCmd(k).value, <<"/">>)
                => log[k].sent = PassCmd(k).value)

\* C11 witness: a source-notation date was converted to a year-month-day date,
\* which a second conversion leaves alone.
C11_Witness ==
    /\ Len(commands) = 1 /\ commands[1].value = Date_0504
    /\ 1 \in DatePasses
    /\ log[1].outcome = "applied"
    /\ log[1].sent = Date_iso
    /\ convert_date_format(Date_iso) = Date_iso

\* '0's put on the left of s until it has two characters
LeftPad2(s) ==
    IF Len(s) >= 2 THEN s
    ELSE IF Len(s) = 1 THEN << "0", s[1] >>
    ELSE << "0", "0" >>

\* v is a text of three '/'-separated parts
ThreeParted(v) ==
    IsText(v) /\ Cardinality({i \in 1..Len(v) : v[i] = "/"}) = 2

\* The record's date of birth went through the matcher: the list holds one
\* date operation that keeps the source value, and for the record of scenario B
\* the page receives 1991-05-04.
DobScenario ==
    data.beneficiary_date_of_birth # None /\ pc # "loaded" =>
        /\ commands = << Cmd("date", DobSel, data.beneficiary_date_of_birth) >>
        /\ (data.beneficiary_date_of_birth = Date_0504
               /\ Len(log) = 1 /\ log[1].outcome = "applied"
               => page["passport-dob"].value = Date_iso)

\* C12 as stated: a date operation whose value is p1/p2/p3 fills p3-p1-p2 with
\* p1 and p2 left-padded with '0' to two characters, and the list keeps the
\* source value.
C12_LeftPadded ==
    /\ DobScenario
    /\ \A k \in DatePasses :
          ThreeParted(PassCmd(k).value) =>
              LET parts == Split(PassCmd(k).value) IN
              log[k].sent = parts[3] \o <<"-">> \o LeftPad2(parts[1])
                                     \o <<"-">> \o LeftPad2(parts[2])

\* C12, amended: p1 and p2 are padded as str.zfill(2) pads, the '0' going
\* after a leading sign; an applied date operation leaves that text in the
\* element, and the list keeps the source value.
C12_ZfillPadded ==
    /\ DobScenario
    /\ \A k \in DatePasses :
          ThreeParted(PassCmd(k).value) =>
              LET parts == Split(PassCmd(k).value) IN
              /\ log[k].sent = parts[3] \o <<"-">> \o Zfill2(parts[1])
                                        \o <<"-">> \o Zfill2(parts[2])
              /\ (log[k].outcome = "applied"
                     => page[PassCmd(k).selector[3]].value = log[k].sent)

\* C12 witness: scenario B ran to the end, one date operation with the source
\* value in the list and 1991-05-04 in the element.
C12_Witness ==
    /\ data.beneficiary_date_of_birth = Date_0504
    /\ commands = << Cmd("date", DobSel, Date_0504) >>
    /\ pc = "executed" /\ filled = 1
    /\ page["passport-dob"].value = Date_iso

\* C13: two calls of populate_form that overlap share nothing: the file at
\* the screenshot path a call returned shows that call's page, the artifact
\* names that call's session and count, and the markup in the debug file is
\* the markup that call read.
C13_RunsShareNothing ==
    /\ pc = "returned" =>
          /\ files.png = << page >>
          /\ result = << [screenshot |-> ScreenshotPath,
                          session_url |-> SessionUrl(SessionId(me)),
                          session_id |-> SessionId(me),
                          fields_filled |-> filled] >>
    /\ pc \in {"executing", "executed", "returned"} =>
          files.html = << form_html >>

\* The elements of the form that carry id
Carrying(id) == {e \in dom : e.id = id}

\* The positions of the merged list that hold the per-field operations of the
\* deterministic matcher, the attestation field's apart
OrdinaryDet ==
    {i \in 1..Len(PerField) :
        i <= Len(commands) /\ commands[i].selector[3] \notin {"not-subject", "am-subject"}}

\* C14: the deterministic matcher classifies a matched field by the element
\* that carries the matched id: date only if that element is type="date",
\* check only if it is type="checkbox", select only if it is a <select>, and
\* fill otherwise, whatever other elements the markup holds.
C14_ClassifiedByOwnElement ==
    HasMerged =>
        \A i \in OrdinaryDet :
            LET c == commands[i]
                els == Carrying(c.selector[3])
            IN  /\ c.action = "date" =>
                      \E e \in els : e.tag = "input" /\ e.type = "date"
                /\ c.action = "check" =>
                      \E e \in els : e.tag = "input" /\ e.type = "checkbox"
                /\ c.action = "select" => \E e \in els : e.tag = "select"
                /\ c.action = "fill" =>
                      \A e \in els : e.tag = "input" /\ e.type \notin {"date", "checkbox"}

\* The positions of field f's priority list whose id some element of the form carries
PresentAt(f) ==
    {i \in 1..Len(field_mappings[f]) : Carrying(field_mappings[f][i]) # {}}

\* C15: a non-null field with an entry in the pattern table yields at most one
\* operation of the deterministic matcher; for a field other than the
\* attestation field that operation targets the earliest fragment of the
\* field's list whose id attribute is in the markup; a field without an entry
\* yields none.  The merged list starts with these operations, one per
\* resolved field.
C15_FirstFragmentWins ==
    HasMerged =>
        /\ Len(commands) >= Len(PerField)
        /\ SubSeq(commands, 1, Len(PerField)) = PerField
        /\ Len(PerField) = Cardinality(Resolved)
        /\ \A f \in NonNull(data) :
              LET ops == FieldCommands(form_html, data, f) IN
              /\ Len(ops) <= 1
              /\ f \notin DOMAIN field_mappings => ops = <<>>
              /\ ( /\ f \in DOMAIN field_mappings
                   /\ f # "attorney_subject_to_restrictions"
                   /\ ops # <<>> )
                 => /\ PresentAt(f) # {}
                    /\ \E i \in PresentAt(f) :
                          /\ \A j \in PresentAt(f) : i <= j
                          /\ ops[1].selector[3] = field_mappings[f][i]

\* C15 witness: the form carries both fragments of attorney_family_name's list
\* and the one operation for it targets the first, and a non-null client_
\* field yielded nothing.
C15_Witness ==
    /\ HasMerged
    /\ data.attorney_family_name # None /\ data.client_family_name # None
    /\ PresentAt("attorney_family_name") = {1, 2}
    /\ Len(PerField) = 1
    /\ commands[1].selector = InputSel("family-name")

\* C16: every operation the deterministic matcher emits (for an ordinary
\* field, for the attestation field, and the attorney-eligible operation)
\* targets an id whose id attribute is in the supplied markup.
C16_TargetsArePresent ==
    HasMerged =>
        \A i \in 1..(Len(PerField) + Len(Derived)) :
            i <= Len(commands) =>
                /\ HasId(form_html, commands[i].selector[3])
                /\ Carrying(commands[i].selector[3]) # {}

\* C17: after a check operation is applied without error its target element
\* is checked, whatever the element's state was before (for one, checked by
\* an earlier operation of the same run).
C17_CheckedAfterCheck ==
    (Len(log) > 0 /\ log[Len(log)].outcome = "applied"
                  /\ ActionOf(PassCmd(Len(log))) = "check")
        => page[PassCmd(Len(log)).selector[3]].checked

\* C18 as stated: the source value is read as day/month/year: of p1/p2/p3 the
\* second part becomes the middle (month) component of the value handed to
\* the page and the first part the last (day) component.
C18_DayMonthYear ==
    \A k \in DatePasses :
        ThreeParted(PassCmd(k).value) =>
            LET parts == Split(PassCmd(k).value) IN
            log[k].sent = parts[3] \o <<"-">> \o Zfill2(parts[2])
                                   \o <<"-">> \o Zfill2(parts[1])

\* C18, amended: the source value is read as month/day/year: of p1/p2/p3 the
\* first part becomes the middle (month) component and the second part the
\* last (day) component, after the year p3.
C18_MonthDayYear ==
    \A k \in DatePasses :
        ThreeParted(PassCmd(k).value) =>
            LET parts == Split(PassCmd(k).value) IN
            log[k].sent = parts[3] \o <<"-">> \o Zfill2(parts[1])
                                   \o <<"-">> \o Zfill2(parts[2])

\* C18 witness: 12/31/1999 was applied and the element holds 1999-12-31.
C18_Witness ==
    /\ Len(commands) = 1 /\ commands[1].value = Date_1231
    /\ Len(log) = 1 /\ log[1].outcome = "applied"
    /\ page["passport-dob"].value =
          <<"1", "9", "9", "9", "-", "1", "2", "-", "3", "1">>

\* The passes for a date command that reached the conversion: the element was
\* located, the value is truthy, and no page call of the run failed by itself
Converting ==
    {k \in 1..Len(log) :
        /\ ActionOf(PassCmd(k)) = "date"
        /\ PageCall(dom, PassCmd(k)) = "fill"
        /\ faults = 0}

\* C19: the conversion never raises, and it returns its input unchanged
\* whenever the input is not made of exactly three '/'-separated parts (no
\* '/', one '/', more than two '/', or a value that is no text): every pass
\* that reached the conversion went on to page.fill, with the input itself
\* in those cases.
C19_ConvertPassesThrough ==
    \A k \in Converting :
        /\ log[k].sent # None
        /\ (~ThreeParted(PassCmd(k).value) => log[k].sent = PassCmd(k).value)

\* C19 witness: a date command whose value is a number reached page.fill with
\* that number.
C19_Witness ==
    /\ Len(log) = 1 /\ 1 \in Converting
    /\ PassCmd(1).value = JsonNumber
    /\ log[1].sent = JsonNumber

\* The handles upload_document_to_gemini returned are neither PROCESSING nor
\* FAILED, and the upload fails as FAILED only on a FAILED handle
SafeHandles ==
    /\ \A i \in 1..Len(uploaded_files) :
          uploaded_files[i].state \notin {"PROCESSING", "FAILED"}
    /\ x_failed = "failed" => file_state = "FAILED"

\* The document being uploaded is still PROCESSING at the remote side
RemoteProcessing == x_pc = "polling" /\ file_state = "PROCESSING"

\* C20: upload_document_to_gemini re-fetches the handle while it is
\* PROCESSING and leaves the loop when it no longer is: it returns no handle
\* that is PROCESSING or FAILED (FAILED raises), and unless the remote state
\* stays PROCESSING for ever, the call and extract_all_data terminate.
C20_UploadTerminates ==
    /\ []SafeHandles
    /\ (~<>[]RemoteProcessing) => <>(x_pc = "done")

\* C20 witness: extract_all_data returned a record after an upload whose
\* handle was re-fetched at least once.
C20_Witness ==
    /\ x_pc = "done" /\ x_failed = ""
    /\ polls > 0
    /\ uploaded_files # <<>>

====
